---- MODULE Spec2Model ----
(***************************************************************************)
(* The parameter hierarchy of GPy.core.parameterization: containers       *)
(* (Parameterized), leaves (Param), the observer registry (Observable),   *)
(* the constraint / prior index stores with their views, the fix mask and *)
(* the optimizer-facing free vector.                                      *)
(*                                                                         *)
(* Every object field is a variable indexed by the object.  Every method  *)
(* is an operator from a state record to a state record, so that a method *)
(* that calls other methods is the composition of their operators; an     *)
(* action applies one public call to the current state and stores the     *)
(* result.  A Python exception is the field exc of the state record: the  *)
(* statements after the raising one are skipped, the ones before it keep  *)
(* their effect.                                                           *)
(***************************************************************************)
EXTENDS Integers, Sequences, FiniteSets, TLC

None == "None"

\* index=None of add_parameter, and _parent_index_ = None
NoIndex == -1

\* The objects of a run: three containers and four leaves.
Containers == {"M", "S", "T"}
Leaves == {"a", "b", "c", "d"}
Nodes == Containers \cup Leaves

\* Properties of the index stores: the fixed sentinel, two value transforms
\* and one prior.
fixed == "fixed"
Transforms == {"t1", "t2"}
PriorProps == {"p1"}
Props == {fixed} \cup Transforms \cup PriorProps

\* The two values of a fix mask entry.
FIXED == FALSE
UNFIXED == TRUE

\* Raw values are residues; t1 and t2 are bijections of them.
NVal == 3
Val == 0 .. (NVal - 1)

\* Observer priorities: -np.inf is the lowest.
NegInf == -1000000
HookPriority == -100

\* Bounds of the exploration.
MaxOps == 3
MaxObs == 3

VARIABLES
    _parameters_,          \* container -> sequence of its children
    size,                  \* node -> its size field
    _param_slices_,        \* container -> sequence of <<start, stop>>
    _direct_parent_,       \* node -> container or None
    _parent_index_,        \* node -> 0-based position or None
    _observer_callables_,  \* node -> sequence of [p, o, c]
    constraints,           \* node -> reference to a store or a view of one
    priors,                \* node -> reference to a store or a view of one
    cstore,                \* node -> content of the constraints store it owns
    pstore,                \* node -> content of the priors store it owns
    _fixes_,               \* node -> the mask [has, mask]; has = FALSE is None
    __dict__,              \* container -> name -> child (attribute lookup)
    _added_names_,         \* container -> set of names
    values,                \* leaf -> its raw buffer
    called,                \* callbacks invoked by the last call, in order
    warned,                \* the last call printed a re-constraining warning
    result,                \* the vector the last call returned, <<>> if none
    last,                  \* the last call: [op, self, param, index]
    err,                   \* how the last call ended: None or the exception
    nops                   \* number of calls made

vars == <<_parameters_, size, _param_slices_, _direct_parent_, _parent_index_,
          _observer_callables_, constraints, priors, cstore, pstore, _fixes_,
          __dict__, _added_names_, values, called, warned, result, last, err, nops>>

\* The fields a failed call must leave alone.
objvars == <<_parameters_, size, _param_slices_, _direct_parent_, _parent_index_,
             _observer_callables_, constraints, priors, cstore, pstore, _fixes_,
             __dict__, _added_names_, values>>

-----------------------------------------------------------------------------
(* Sequences as Python lists *)

Max(x, y) == IF x >= y THEN x ELSE y
Min(x, y) == IF x <= y THEN x ELSE y

In(x, s) == \E i \in 1 .. Len(s) : s[i] = x

\* s[:k] for k >= 0
Prefix(s, k) == SubSeq(s, 1, Min(k, Len(s)))

\* s[lo:hi] for 0 <= lo, hi
Slice(s, lo, hi) == SubSeq(s, Min(lo, Len(s)) + 1, Min(hi, Len(s)))

\* list.insert(k, x) for k >= 0
Insert(s, k, x) == Prefix(s, k) \o <<x>> \o SubSeq(s, Min(k, Len(s)) + 1, Len(s))

\* del s[k] for 0 <= k < len(s)
Delete(s, k) == SubSeq(s, 1, k) \o SubSeq(s, k + 2, Len(s))

RECURSIVE Sum(_)
Sum(s) == IF s = <<>> THEN 0 ELSE Head(s) + Sum(Tail(s))

RECURSIVE Concat(_)
Concat(ss) == IF ss = <<>> THEN <<>> ELSE Head(ss) \o Concat(Tail(ss))

\* a function as the table of its values
Table(fn) == fn @@ fn

Sizes(st, s) == [i \in 1 .. Len(s) |-> st.size[s[i]]]

-----------------------------------------------------------------------------
(* The state record the operators work on *)

Cur ==
    [_parameters_ |-> _parameters_, size |-> size, _param_slices_ |-> _param_slices_,
     _direct_parent_ |-> _direct_parent_, _parent_index_ |-> _parent_index_,
     _observer_callables_ |-> _observer_callables_,
     constraints |-> constraints, priors |-> priors, cstore |-> cstore, pstore |-> pstore,
     _fixes_ |-> _fixes_, __dict__ |-> __dict__, _added_names_ |-> _added_names_,
     values |-> values, called |-> <<>>, warned |-> FALSE, result |-> <<>>, exc |-> None]

Raise(st, e) == [st EXCEPT !.exc = e]

-----------------------------------------------------------------------------
(* Index stores and their views.                                           *)
(* A reference is the store of node b itself (v = FALSE) or a view of it:  *)
(* a view of a view is the view with the offsets added and the windows     *)
(* intersected, lo..hi-1 being the indices of the store that show through. *)

RealRef(n) == [b |-> n, v |-> FALSE, off |-> 0, lo |-> 0, hi |-> 0]

\* What the fields of a node hold when the rebuild of its views did not end.
DeepRef == [b |-> None, v |-> TRUE, off |-> 0, lo |-> 0, hi |-> 0]

Window(b, v, off, lo, hi) ==
    IF lo >= hi THEN [b |-> b, v |-> v, off |-> off, lo |-> 0, hi |-> 0]
    ELSE [b |-> b, v |-> v, off |-> off, lo |-> lo, hi |-> hi]

\* ParameterIndexOperationsView(r, offset, sz)
View(r, offset, sz) ==
    IF r.b = None THEN DeepRef
    ELSE IF ~r.v THEN Window(r.b, TRUE, offset, offset, offset + sz)
    ELSE Window(r.b, TRUE, r.off + offset,
                IF r.lo >= r.hi THEN 0 ELSE Max(r.lo, r.off + offset),
                IF r.lo >= r.hi THEN 0 ELSE Min(r.hi, r.off + offset + sz))

Visible(r, j) == ~r.v \/ (j >= r.lo /\ j < r.hi)

EmptyStore == [p \in Props |-> {}]

\* iteritems / __getitem__: the indices under each property, in the
\* coordinates of the reference
items(sm, r) ==
    IF r.b = None THEN EmptyStore
    ELSE [p \in Props |-> {j - r.off : j \in {k \in sm[r.b][p] : Visible(r, k)}}]

\* add: a transform takes its indices from the transform that held them
store_add(sm, r, prop, ind) ==
    LET new == {i + r.off : i \in ind} IN
    [sm EXCEPT ![r.b] =
        Table([p \in Props |->
                  IF p = prop THEN sm[r.b][p] \cup new
                  ELSE IF prop \in Transforms /\ p \in Transforms THEN sm[r.b][p] \ new
                  ELSE sm[r.b][p]])]

\* the indices remove() returns
removed(sm, r, prop, ind) == {i \in ind : (i + r.off) \in sm[r.b][prop]}

store_remove(sm, r, prop, ind) ==
    [sm EXCEPT ![r.b] =
        Table([p \in Props |->
                  IF p = prop THEN sm[r.b][p] \ {i + r.off : i \in ind} ELSE sm[r.b][p]])]

store_clear(sm, r) ==
    [sm EXCEPT ![r.b] = Table([p \in Props |-> {j \in sm[r.b][p] : ~Visible(r, j)}])]

shift_right(sm, r, start, k) ==
    [sm EXCEPT ![r.b] =
        Table([p \in Props |-> {IF j >= start + r.off THEN j + k ELSE j : j \in sm[r.b][p]}])]

shift_left(sm, r, start, k) ==
    [sm EXCEPT ![r.b] =
        Table([p \in Props |-> {IF j >= start + r.off THEN j - k ELSE j : j \in sm[r.b][p]}])]

\* update(other, offset), its being other's items
store_update(sm, r, its, offset) ==
    [sm EXCEPT ![r.b] =
        Table([p \in Props |-> sm[r.b][p] \cup {i + offset + r.off : i \in its[p]}])]

-----------------------------------------------------------------------------
(* Names *)

\* The name each object was constructed with.
name(n) == IF n = "d" THEN "c-" ELSE n

\* adjust_name_for_printing on the names above: " " and "." become "_",
\* "-", "+", "!", "*" and "/" are dropped.
adjust_name_for_printing(nm) == IF nm = "c-" THEN "c" ELSE nm

PNames == {adjust_name_for_printing(name(n)) : n \in Nodes}

\* Parameterizable._add_parameter_name.  dir(self) holds, besides the entries
\* of __dict__, the attributes of the class, none of which is in PNames.
_add_parameter_name(st, self, param) ==
    LET pname == adjust_name_for_printing(name(param)) IN
    IF st.__dict__[self][pname] # None
    THEN IF st.__dict__[self][pname] # param /\ pname \in st._added_names_[self]
         THEN [st EXCEPT !.__dict__[self][pname] = param,
                         !._added_names_[self] = @ \cup {pname}]
         ELSE st
    ELSE [st EXCEPT !.__dict__[self][pname] = param,
                    !._added_names_[self] = @ \cup {pname}]

RECURSIVE AddNames(_, _, _)
AddNames(st, self, ps) ==
    IF ps = <<>> THEN st
    ELSE AddNames(_add_parameter_name(st, self, Head(ps)), self, Tail(ps))

-----------------------------------------------------------------------------
(* Parameterized._connect_parameters *)

SliceTable(st, ps) ==
    [i \in 1 .. Len(ps) |->
        <<Sum(Sizes(st, SubSeq(ps, 1, i - 1))), Sum(Sizes(st, SubSeq(ps, 1, i)))>>]

_connect_parameters(st, self) ==
    LET ps == st._parameters_[self] IN
    IF Len(ps) < 1 THEN st
    ELSE AddNames(
           [st EXCEPT
              !._direct_parent_ =
                  Table([n \in Nodes |-> IF In(n, ps) THEN self ELSE st._direct_parent_[n]]),
              !._parent_index_ =
                  Table([n \in Nodes |->
                      IF In(n, ps) THEN (CHOOSE i \in 1 .. Len(ps) :
                                            ps[i] = n /\ \A j \in (i + 1) .. Len(ps) : ps[j] # n) - 1
                      ELSE st._parent_index_[n]]),
              !._param_slices_[self] = SliceTable(st, ps)],
           self, ps)

\* Parameterizable._remove_parameter_name(param)
_remove_parameter_name(st, self, param) ==
    LET pname == adjust_name_for_printing(name(param))
        s1 == IF pname \in st._added_names_[self]
              THEN [st EXCEPT !.__dict__[self][pname] = None,
                              !._added_names_[self] = @ \ {pname}]
              ELSE st
    IN _connect_parameters(s1, self)

-----------------------------------------------------------------------------
(* Offsets *)

has_parent(st, n) == st._direct_parent_[n] # None

\* Parameterized._get_original
_get_original(st, self, param) == st._parameters_[self][st._parent_index_[param] + 1]

\* Parameterized._offset_for
RECURSIVE _offset_for(_, _, _)
_offset_for(st, self, param) ==
    IF has_parent(st, param)
    THEN LET dp == st._direct_parent_[param]
             orig == _get_original(st, dp, param)
         IN IF In(orig, st._parameters_[self])
            THEN st._param_slices_[self][st._parent_index_[orig] + 1][1]
            ELSE _offset_for(st, self, dp) + _offset_for(st, dp, param)
    ELSE 0

\* Parentable._highest_parent_
RECURSIVE _highest_parent_(_, _)
_highest_parent_(st, n) ==
    IF st._direct_parent_[n] = None THEN n
    ELSE _highest_parent_(st, st._direct_parent_[n])

\* Following the parent pointers from n ends: n is on no cycle of them.
RECURSIVE EndsWithin(_, _, _)
EndsWithin(dp, n, k) ==
    IF dp[n] = None THEN TRUE
    ELSE IF k = 0 THEN FALSE
    ELSE EndsWithin(dp, dp[n], k - 1)

Acyclic(dp) == \A n \in Nodes : EndsWithin(dp, n, Cardinality(Nodes))

-----------------------------------------------------------------------------
(* Fix mask *)

NoFixes == [has |-> FALSE, mask |-> <<>>]
Mask(m) == [has |-> TRUE, mask |-> m]

\* Constrainable._connect_fixes: np.ones(size) needs size >= 0, and the
\* assignment through the index array needs every index in -size .. size-1
\* (a negative one counts from the end); numpy checks the indices before it
\* writes any entry.
_connect_fixes(st, self) ==
    LET fixed_indices == items(st.cstore, st.constraints[self])[fixed]
        n == st.size[self]
    IN IF fixed_indices # {}
       THEN IF n < 0 THEN Raise(st, "ValueError")
            ELSE IF \E i \in fixed_indices : i >= n \/ i < 0 - n
            THEN Raise([st EXCEPT !._fixes_[self] = Mask([i \in 1 .. n |-> UNFIXED])], "IndexError")
            ELSE [st EXCEPT !._fixes_[self] =
                     Mask([i \in 1 .. n |->
                        IF (i - 1) \in fixed_indices \/ (i - 1 - n) \in fixed_indices
                        THEN FIXED ELSE UNFIXED])]
       ELSE [st EXCEPT !._fixes_[self] = NoFixes]

_has_fixes(st, n) == st._fixes_[n].has

-----------------------------------------------------------------------------
(* Parent change *)

\* The nodes the calls p._parent_changed(parent), for p in the children of
\* self and on into their children, reach, in the order of the calls: the
\* walk ends (loop = FALSE) unless it comes back to a node it has been at,
\* and then it goes round until the interpreter's recursion limit.
RECURSIVE Walk(_, _, _)
Walk(st, stack, seen) ==
    IF stack = <<>> THEN [seen |-> seen, loop |-> FALSE]
    ELSE IF Head(stack) \in seen THEN [seen |-> seen, loop |-> TRUE]
    ELSE Walk(st, st._parameters_[Head(stack)] \o Tail(stack), seen \cup {Head(stack)})

\* Parentable._notify_parent_change with Constrainable._parent_changed
_notify_parent_change(st, self) ==
    LET w == Walk(st, st._parameters_[self], {})
        nofixes == Table([n \in Nodes |-> IF n \in w.seen THEN NoFixes ELSE st._fixes_[n]])
    IN
    IF w.loop
    THEN Raise([st EXCEPT
                  !.constraints =
                      Table([n \in Nodes |-> IF n \in w.seen THEN DeepRef ELSE st.constraints[n]]),
                  !.priors =
                      Table([n \in Nodes |-> IF n \in w.seen THEN DeepRef ELSE st.priors[n]]),
                  !._fixes_ = nofixes],
               "RecursionError")
    ELSE [st EXCEPT
            !.constraints = Table([n \in Nodes |->
                IF n \in w.seen
                THEN View(st.constraints[self], _offset_for(st, self, n), st.size[n])
                ELSE st.constraints[n]]),
            !.priors = Table([n \in Nodes |->
                IF n \in w.seen
                THEN View(st.priors[self], _offset_for(st, self, n), st.size[n])
                ELSE st.priors[n]]),
            !._fixes_ = nofixes]

\* Constrainable._disconnect_parent
_disconnect_parent(st, self) ==
    LET constr == items(st.cstore, st.constraints[self])
        cleared == store_clear(st.cstore, st.constraints[self])
        s1 == [st EXCEPT !.cstore = [cleared EXCEPT ![self] = constr],
                         !.constraints[self] = RealRef(self),
                         !._direct_parent_[self] = None,
                         !._parent_index_[self] = NoIndex]
        notify(s) == IF s.exc # None THEN s ELSE _notify_parent_change(s, self)
    IN notify(_connect_fixes(s1, self))

-----------------------------------------------------------------------------
(* Observable *)

changed_cb == "_parameters_changed_notification"
pass_cb == "_pass_through_notify_observers"

\* _insert_sorted putting every entry at the end
mutant_insert_sorted(obs, p, o, c) == Append(obs, [p |-> p, o |-> o, c |-> c])

\* _insert_sorted stopping at the first entry of the same or a lower priority
mutant_insert_before(obs, p, o, c) ==
    LET ins == IF \E i \in 1 .. Len(obs) : p >= obs[i].p
               THEN (CHOOSE i \in 1 .. Len(obs) :
                        p >= obs[i].p /\ \A j \in 1 .. (i - 1) : ~(p >= obs[j].p)) - 1
               ELSE Len(obs)
    IN Insert(obs, ins, [p |-> p, o |-> o, c |-> c])

\* Observable._insert_sorted
_insert_sorted(obs, p, o, c) ==
    LET ins == IF \E i \in 1 .. Len(obs) : p > obs[i].p
               THEN (CHOOSE i \in 1 .. Len(obs) :
                        p > obs[i].p /\ \A j \in 1 .. (i - 1) : ~(p > obs[j].p)) - 1
               ELSE Len(obs)
    IN Insert(obs, ins, [p |-> p, o |-> o, c |-> c])

\* Observable.add_observer
add_observer(st, n, observer, callble, priority) ==
    [st EXCEPT !._observer_callables_[n] = _insert_sorted(@, priority, observer, callble)]

RECURSIVE Without(_, _, _)
Without(obs, observer, callble) ==
    IF obs = <<>> THEN <<>>
    ELSE IF Head(obs).o = observer /\ (callble = None \/ Head(obs).c = callble)
         THEN Without(Tail(obs), observer, callble)
         ELSE <<Head(obs)>> \o Without(Tail(obs), observer, callble)

\* remove_observer leaving the list as it is
mutant_keep_observer(st, n, observer, callble) == st

\* remove_observer taking no account of the callback
mutant_remove_observer(st, n, observer, callble) ==
    [st EXCEPT !._observer_callables_[n] = Without(@, observer, None)]

\* Observable.remove_observer
remove_observer(st, n, observer, callble) ==
    [st EXCEPT !._observer_callables_[n] = Without(@, observer, callble)]

-----------------------------------------------------------------------------
(* Parameterized.remove_parameter *)

\* the loop over the ancestors that ends remove_parameter
RECURSIVE AncestorsRevalidate(_, _)
AncestorsRevalidate(st, parent) ==
    IF parent = None \/ st.exc # None THEN st
    ELSE LET params(s) == IF s.exc # None THEN s ELSE _connect_parameters(s, parent)
             notify(s) == IF s.exc # None THEN s ELSE _notify_parent_change(s, parent)
             up(s) == AncestorsRevalidate(s, s._direct_parent_[parent])
         IN up(notify(params(_connect_fixes(st, parent))))

\* remove_parameter past its check
remove_child(st, self, param) ==
    LET start == Sum(Sizes(st, Prefix(st._parameters_[self], st._parent_index_[param])))
        \* self.size -= param.size; del self._parameters_[param._parent_index_]
        drop(s) == [s EXCEPT !.size[self] = @ - s.size[param],
                             !._parameters_[self] = Delete(@, s._parent_index_[param])]
        \* param.remove_observer(...); self.constraints.shift_left(start, param.size)
        shift(s) ==
            IF s.exc # None THEN s
            ELSE [remove_observer(s, param, self, pass_cb) EXCEPT
                    !.cstore = shift_left(@, s.constraints[self], start, s.size[param])]
        \* self._connect_fixes(); self._connect_parameters(); self._notify_parent_change()
        revalidate(s) ==
            IF s.exc # None THEN s ELSE _connect_parameters(s, self)
        notify(s) ==
            IF s.exc # None THEN s ELSE _notify_parent_change(s, self)
        fixes(s) ==
            IF s.exc # None THEN s ELSE _connect_fixes(s, self)
        up(s) ==
            IF s.exc # None THEN s ELSE AncestorsRevalidate(s, s._direct_parent_[self])
    IN up(notify(revalidate(fixes(shift(
          _disconnect_parent(drop(_remove_parameter_name(st, self, param)), param))))))

\* remove_parameter checking only that param has some parent
mutant_remove_parameter(st, self, param) ==
    IF ~has_parent(st, param) THEN Raise(st, "RuntimeError")
    ELSE remove_child(st, self, param)

remove_parameter(st, self, param) ==
    IF ~In(param, st._parameters_[self]) THEN Raise(st, "RuntimeError")
    ELSE remove_child(st, self, param)

-----------------------------------------------------------------------------
(* Parameterized.add_parameter *)

\* the walk up from the parent of param that looks for self
RECURSIVE InAncestors(_, _, _)
InAncestors(st, self, parent) ==
    IF parent = None THEN FALSE
    ELSE IF parent = self THEN TRUE
    ELSE InAncestors(st, self, st._direct_parent_[parent])

\* the branch for a param that is not a child of self, past the walk over
\* its ancestors
attach(st, self, param, index) ==
    LET \* param._direct_parent_.remove_parameter(param)
        s0 == IF has_parent(st, param)
              THEN remove_parameter(st, st._direct_parent_[param], param)
              ELSE st
        \* the stores and the child list take param in
        insert(s) ==
            LET start == IF index = NoIndex THEN s.size[self]
                         ELSE Sum(Sizes(s, Prefix(s._parameters_[self], index)))
                c1 == IF index = NoIndex THEN s.cstore
                      ELSE shift_right(s.cstore, s.constraints[self], start, s.size[param])
                cits == items(c1, s.constraints[param])
                p1 == IF index = NoIndex THEN s.pstore
                      ELSE shift_right(s.pstore, s.priors[self], start, s.size[param])
                \* param.constraints and param.priors are read after the shifts
                pits == items(p1, s.priors[param])
            IN IF s.exc # None THEN s
               ELSE [s EXCEPT
                       !.cstore = store_update(c1, s.constraints[self], cits, start),
                       !.pstore = store_update(p1, s.priors[self], pits, start),
                       !._parameters_[self] =
                           IF index = NoIndex THEN Append(@, param)
                           ELSE Insert(@, index, param)]
        \* param.add_observer(self, ..., -np.inf); self.size += param.size
        grow(s) ==
            IF s.exc # None THEN s
            ELSE [add_observer(s, param, self, pass_cb, NegInf) EXCEPT
                    !.size[self] = @ + s.size[param]]
        revalidate(s) ==
            IF s.exc # None THEN s ELSE _connect_parameters(s, self)
        notify(s) ==
            IF s.exc # None THEN s ELSE _notify_parent_change(s, self)
        fixes(s) ==
            IF s.exc # None THEN s ELSE _connect_fixes(s, self)
    IN fixes(notify(revalidate(grow(insert(s0)))))

\* the branch for a param that is not a child of self, without the walk
\* over its ancestors
mutant_add_new(st, self, param, index) == attach(st, self, param, index)

\* the branch for a param that is not a child of self
add_new(st, self, param, index) ==
    IF has_parent(st, param) /\ InAncestors(st, self, st._direct_parent_[param])
    THEN Raise(st, "HierarchyError")
    ELSE attach(st, self, param, index)

\* add_parameter attaching a child it already has once more
mutant_add_parameter(st, self, param, index) ==
    IF In(param, st._parameters_[self]) /\ index # NoIndex
    THEN LET again(s) == IF s.exc # None THEN s ELSE add_new(s, self, param, index)
         IN again(remove_parameter(st, self, param))
    ELSE IF ~In(param, st._parameters_[self])
    THEN add_new(st, self, param, index)
    ELSE attach(st, self, param, index)

add_parameter(st, self, param, index) ==
    IF In(param, st._parameters_[self]) /\ index # NoIndex
    THEN LET again(s) == IF s.exc # None THEN s ELSE add_new(s, self, param, index)
         IN again(remove_parameter(st, self, param))
    ELSE IF ~In(param, st._parameters_[self])
    THEN add_new(st, self, param, index)
    ELSE Raise(st, "RuntimeError")

-----------------------------------------------------------------------------
(* Notification *)

\* Observable._notify_observers(which, min_priority) on n, from entry i of
\* the list on; hasmin = FALSE is min_priority = None.  The callbacks are
\* the change hook of a container (Parameterized._parameters_changed_notification
\* calls parameters_changed), the pass-through of a container
\* (Parameterized._pass_through_notify_observers notifies the container's own
\* observers, all of them) and callables of the caller, which only run.
\* Every callback invoked is appended to called.
RECURSIVE NotifyFrom(_, _, _, _, _, _)
NotifyFrom(st, n, which, hasmin, min_priority, i) ==
    IF i > Len(st._observer_callables_[n]) THEN st
    ELSE LET e == st._observer_callables_[n][i] IN
         IF hasmin /\ e.p <= min_priority THEN st
         ELSE LET s1 == [st EXCEPT !.called =
                            Append(@, [p |-> e.p, o |-> e.o, c |-> e.c, which |-> which])]
                  s2 == IF e.c = pass_cb
                        THEN NotifyFrom(s1, e.o, which, FALSE, 0, 1)
                        ELSE s1
              IN NotifyFrom(s2, n, which, hasmin, min_priority, i + 1)

_notify_observers(st, n, hasmin, min_priority) ==
    NotifyFrom(st, n, n, hasmin, min_priority, 1)

-----------------------------------------------------------------------------
(* Raw values *)

\* Python's s[lo:hi], negative bounds counting from the end
PyBound(i, n) == IF i < 0 THEN Max(0, n + i) ELSE Min(i, n)
PySlice(s, lo, hi) == SubSeq(s, PyBound(lo, Len(s)) + 1, PyBound(hi, Len(s)))

\* Param._set_params: self.flat = params repeats params over the buffer and
\* does nothing when params is empty; then the observers above -inf (or all
\* of them) are notified.
leaf_set_params(st, n, params, trigger_parent) ==
    LET s1 == IF Len(params) = 0 THEN st
              ELSE [st EXCEPT !.values[n] =
                       [i \in 1 .. Len(st.values[n]) |-> params[((i - 1) % Len(params)) + 1]]]
    IN _notify_observers(s1, n, ~trigger_parent, NegInf)

\* Parameterizable._set_params
RECURSIVE _set_params(_, _, _, _)
RECURSIVE SetChildren(_, _, _, _)
RECURSIVE mutant_SetChildren(_, _, _, _)

\* the loop over the children handing trigger_parent = True down to them
mutant_SetChildren(st, n, params, i) ==
    IF i > Len(st._parameters_[n]) \/ i > Len(st._param_slices_[n]) THEN st
    ELSE mutant_SetChildren(
            _set_params(st, st._parameters_[n][i],
                        PySlice(params, st._param_slices_[n][i][1], st._param_slices_[n][i][2]),
                        TRUE),
            n, params, i + 1)

\* the loop of Parameterizable._set_params over the children and their slices
SetChildren(st, n, params, i) ==
    IF i > Len(st._parameters_[n]) \/ i > Len(st._param_slices_[n]) THEN st
    ELSE SetChildren(
            _set_params(st, st._parameters_[n][i],
                        PySlice(params, st._param_slices_[n][i][1], st._param_slices_[n][i][2]),
                        FALSE),
            n, params, i + 1)

_set_params(st, n, params, trigger_parent) ==
    IF n \in Leaves THEN leaf_set_params(st, n, params, trigger_parent)
    ELSE _notify_observers(SetChildren(st, n, params, 1), n, ~trigger_parent, NegInf)

\* OptimizationHandlable._get_params, as [exc, v]: np.hstack of no array at
\* all raises ValueError.
RECURSIVE _get_params(_, _)
_get_params(st, n) ==
    IF n \in Leaves THEN [exc |-> None, v |-> st.values[n]]
    ELSE IF st.size[n] = 0 THEN [exc |-> None, v |-> <<>>]
    ELSE LET kids == SelectSeq(st._parameters_[n], LAMBDA x : st.size[x] > 0)
             parts == [i \in 1 .. Len(kids) |-> _get_params(st, kids[i])]
         IN IF \E i \in 1 .. Len(kids) : parts[i].exc # None
            THEN [exc |-> "ValueError", v |-> <<>>]
            ELSE IF kids = <<>> THEN [exc |-> "ValueError", v |-> <<>>]
            ELSE [exc |-> None, v |-> Concat([i \in 1 .. Len(kids) |-> parts[i].v])]

-----------------------------------------------------------------------------
(* Transforms *)

\* Transformation.f: optimizer space to raw space
f(t, x) == IF t = "t1" THEN (x + 1) % NVal ELSE (x + 2) % NVal

\* Transformation.finv: raw space to optimizer space
finv(t, x) == IF t = "t1" THEN (x + NVal - 1) % NVal ELSE (x + NVal - 2) % NVal

\* Transformation.initialize: a raw value inside the range of f is kept
initialize(t, x) == x

\* numpy: an index array on a vector of n entries, a negative index counting
\* from the end
InRange(ind, n) == \A i \in ind : i < n /\ i >= 0 - n
Hits(ind, n, k) == (k - 1) \in ind \/ (k - 1 - n) \in ind

\* the positions a boolean mask selects on a vector of n entries, as [exc, at].
\* With a mask of another length numpy either raises IndexError or, in the
\* releases that take the mask for the positions of its true entries
\* (lenient), raises only when one of them is outside the vector.
MaskPositions(mask, n, lenient) ==
    LET at == SelectSeq([k \in 1 .. Len(mask) |-> k], LAMBDA k : mask[k])
    IN IF Len(mask) = n THEN [exc |-> None, at |-> at]
       ELSE IF lenient /\ \A i \in 1 .. Len(at) : at[i] <= n THEN [exc |-> None, at |-> at]
       ELSE [exc |-> "IndexError", at |-> <<>>]

\* [np.put(p, ind, c.finv(p[ind])) for c, ind in constraints.iteritems()
\*  if c != __fixed__], fwd choosing f instead; t1 and t2 commute, so the
\* order of the dictionary does not show.
TransformAll(st, n, p, fwd) ==
    LET its == items(st.cstore, st.constraints[n])
        g(t, x) == IF fwd THEN f(t, x) ELSE finv(t, x)
        q1 == [k \in 1 .. Len(p) |-> IF Hits(its["t1"], Len(p), k) THEN g("t1", p[k]) ELSE p[k]]
        q2 == [k \in 1 .. Len(p) |-> IF Hits(its["t2"], Len(p), k) THEN g("t2", q1[k]) ELSE q1[k]]
    IN IF \E t \in Transforms : ~InRange(its[t], Len(p))
       THEN [exc |-> "IndexError", v |-> <<>>]
       ELSE [exc |-> None, v |-> q2]

\* OptimizationHandlable._get_params_transformed, as [exc, v]
_get_params_transformed(st, n, lenient) ==
    LET p == _get_params(st, n)
        q == TransformAll(st, n, p.v, FALSE)
        m == MaskPositions(st._fixes_[n].mask, Len(q.v), lenient)
    IN IF p.exc # None THEN p
       ELSE IF q.exc # None THEN q
       ELSE IF _has_fixes(st, n)
            THEN IF m.exc # None THEN [exc |-> m.exc, v |-> <<>>]
                 ELSE [exc |-> None, v |-> [i \in 1 .. Len(m.at) |-> q.v[m.at[i]]]]
            ELSE q

\* OptimizationHandlable._size_transformed
_size_transformed(st, n) ==
    st.size[n] - Cardinality(items(st.cstore, st.constraints[n])[fixed])

\* tmp[mask] = p: as many values as positions, or one value for all of them
MaskAssign(tmp, at, p) ==
    IF Len(p) = Len(at)
    THEN [exc |-> None,
          v |-> [k \in 1 .. Len(tmp) |->
                    IF \E i \in 1 .. Len(at) : at[i] = k
                    THEN p[CHOOSE i \in 1 .. Len(at) : at[i] = k] ELSE tmp[k]]]
    ELSE IF Len(p) = 1
    THEN [exc |-> None,
          v |-> [k \in 1 .. Len(tmp) |-> IF \E i \in 1 .. Len(at) : at[i] = k THEN p[1] ELSE tmp[k]]]
    ELSE [exc |-> "ValueError", v |-> <<>>]

\* OptimizationHandlable._untransform_params, as [exc, v]
_untransform_params(st, n, p, lenient) ==
    LET tmp == _get_params(st, n)
        m == MaskPositions(st._fixes_[n].mask, Len(tmp.v), lenient)
        a == MaskAssign(tmp.v, m.at, p)
        p1 == IF ~_has_fixes(st, n) THEN [exc |-> None, v |-> p]
              ELSE IF tmp.exc # None THEN tmp
              ELSE IF m.exc # None THEN [exc |-> m.exc, v |-> <<>>]
              ELSE a
    IN IF p1.exc # None THEN p1 ELSE TransformAll(st, n, p1.v, TRUE)

\* OptimizationHandlable._set_params_transformed
_set_params_transformed(st, n, p, lenient) ==
    LET u == _untransform_params(st, n, p, lenient)
    IN IF u.exc # None THEN Raise(st, u.exc) ELSE _set_params(st, n, u.v, TRUE)

\* Transformation.gradfactor: the factor of the chain rule at a raw value
gradfactor(t, x) == IF t = "t1" THEN x + 1 ELSE x + 2

\* the entry of x an index array reaches through entry k of a vector of n
\* entries, 0 past the end of x
Reached(ind, n, x, k) ==
    LET i == IF (k - 1) \in ind THEN k - 1 ELSE k - 1 - n
        j == IF i < 0 THEN Len(x) + i + 1 ELSE i + 1
    IN IF j >= 1 /\ j <= Len(x) THEN x[j] ELSE 0

\* Parameterized._transform_gradients, as [exc, v].  No parameter is tied to
\* another one, so the loop over _tied_to_me_ adds nothing.
_transform_gradients(st, n, g, lenient) ==
    LET x == _get_params(st, n)
        its == items(st.cstore, st.constraints[n])
        g1 == [k \in 1 .. Len(g) |->
                  IF Hits(its["t1"], Len(g), k)
                  THEN (g[k] * gradfactor("t1", Reached(its["t1"], Len(g), x.v, k))) % NVal
                  ELSE g[k]]
        g2 == [k \in 1 .. Len(g) |->
                  IF Hits(its["t2"], Len(g), k)
                  THEN (g1[k] * gradfactor("t2", Reached(its["t2"], Len(g), x.v, k))) % NVal
                  ELSE g1[k]]
        m == MaskPositions(st._fixes_[n].mask, Len(g), lenient)
    IN IF has_parent(st, n) THEN [exc |-> None, v |-> g]
       ELSE IF x.exc # None THEN x
       ELSE IF \E t \in Transforms : ~InRange(its[t], Len(g)) \/ ~InRange(its[t], Len(x.v))
       THEN [exc |-> "IndexError", v |-> <<>>]
       ELSE IF _has_fixes(st, n)
            THEN IF m.exc # None THEN [exc |-> m.exc, v |-> <<>>]
                 ELSE [exc |-> None, v |-> [i \in 1 .. Len(m.at) |-> g2[m.at[i]]]]
            ELSE [exc |-> None, v |-> g2]

-----------------------------------------------------------------------------
(* Fixing and constraining *)

\* Param._raveled_index of a whole leaf, Parameterized._raveled_index
_raveled_index(st, n) == 0 .. (st.size[n] - 1)

\* Parameterized._raveled_index_for
_raveled_index_for(st, self, param) ==
    {i + _offset_for(st, self, param) : i \in _raveled_index(st, param)}

\* Constrainable._set_fixed (to = FIXED) and _set_unfixed (to = UNFIXED):
\* np.all of the mask, true of an empty one, drops it
SetMask(st, self, index, to) ==
    LET n == st.size[self]
        m0 == IF _has_fixes(st, self) THEN st._fixes_[self].mask ELSE [i \in 1 .. n |-> UNFIXED]
        m1 == [k \in 1 .. Len(m0) |-> IF Hits(index, Len(m0), k) THEN to ELSE m0[k]]
    IN IF ~_has_fixes(st, self) /\ n < 0 THEN Raise(st, "ValueError")
       ELSE IF ~InRange(index, Len(m0))
       THEN Raise([st EXCEPT !._fixes_[self] = Mask(m0)], "IndexError")
       ELSE IF \A k \in 1 .. Len(m1) : m1[k]
       THEN [st EXCEPT !._fixes_[self] = NoFixes]
       ELSE [st EXCEPT !._fixes_[self] = Mask(m1)]

_set_fixed(st, self, index) == SetMask(st, self, index, FIXED)

_set_unfixed(st, self, index) == SetMask(st, self, index, UNFIXED)

StoreOf(which) == IF which = "constraints" THEN "cstore" ELSE "pstore"

\* Constrainable._remove_from_index_operations(which, transforms), as
\* [st, removed]; no transforms means the properties the node's view shows.
\* The indices remove() returned, in the coordinates of the node, go to the
\* highest parent's _set_unfixed for the fixed sentinel.
_remove_from_index_operations(st, self, which, transforms) ==
    LET r == st[which][self]
        sm == st[StoreOf(which)]
        its == items(sm, r)
        ts == IF transforms = {} THEN {t \in Props : its[t] # {}} ELSE transforms
        gone(t) == removed(sm, r, t, _raveled_index(st, self))
        sm1 == [sm EXCEPT ![r.b] =
                   Table([t \in Props |->
                       IF t \in ts
                       THEN sm[r.b][t] \ {i + r.off : i \in _raveled_index(st, self)}
                       ELSE sm[r.b][t]])]
        s1 == [st EXCEPT ![StoreOf(which)] = sm1]
        s2 == IF fixed \in ts
              THEN _set_unfixed(s1, _highest_parent_(s1, self), gone(fixed))
              ELSE s1
    IN [st |-> s2, removed |-> UNION {gone(t) : t \in ts}]

\* Constrainable.unconstrain
unconstrain(st, self, transforms) ==
    _remove_from_index_operations(st, self, "constraints", transforms)

\* _add_to_index_operations printing nothing
mutant_add_silently(st, self, which, reconstrained, transform, warning) ==
    [st EXCEPT ![StoreOf(which)] =
                   store_add(@, st[which][self], transform, _raveled_index(st, self))]

\* _add_to_index_operations recording the transform for the first index only
mutant_add_first_index(st, self, which, reconstrained, transform, warning) ==
    [st EXCEPT !.warned = @ \/ (warning /\ reconstrained # {}),
               ![StoreOf(which)] =
                   store_add(@, st[which][self], transform, _raveled_index(st, self) \cap {0})]

\* Constrainable._add_to_index_operations
_add_to_index_operations(st, self, which, reconstrained, transform, warning) ==
    [st EXCEPT !.warned = @ \/ (warning /\ reconstrained # {}),
               ![StoreOf(which)] =
                   store_add(@, st[which][self], transform, _raveled_index(st, self))]

\* Constrainable.constrain
constrain(st, self, transform, warning, trigger_parent) ==
    LET p == _get_params(st, self)
        s1 == IF transform \in Transforms
              THEN IF p.exc # None THEN Raise(st, p.exc)
                   ELSE _set_params(st, self,
                                    [i \in 1 .. Len(p.v) |-> initialize(transform, p.v[i])],
                                    trigger_parent)
              ELSE st
        u == unconstrain(s1, self, {})
    IN IF s1.exc # None THEN s1
       ELSE IF u.st.exc # None THEN u.st
       ELSE _add_to_index_operations(u.st, self, "constraints", u.removed, transform, warning)

\* Constrainable.constrain_fixed (fix)
constrain_fixed(st, self) ==
    LET s1 == constrain(st, self, fixed, TRUE, TRUE)
        root == _highest_parent_(s1, self)
    IN IF s1.exc # None THEN s1
       ELSE _set_fixed(s1, root, _raveled_index_for(s1, root, self))

\* Constrainable.unconstrain_fixed (unfix)
unconstrain_fixed(st, self) ==
    LET u == unconstrain(st, self, {fixed})
    IN IF u.st.exc # None THEN u.st
       ELSE _set_unfixed(u.st, _highest_parent_(u.st, self), u.removed)

-----------------------------------------------------------------------------
(* Construction *)

Call(op, self, param, index) ==
    [op |-> op, self |-> self, param |-> param, index |-> index, c |-> None, priority |-> 0]

\* The objects as constructed, standalone: leaf n has sz[n] entries, all of
\* them under the constraint con[n] (set with constrain, or with fix for the
\* fixed sentinel) and the prior pri[n] (set with set_prior), None for none.
\* A container registers its own change hook (Parameterized.__init__).
New(sz, con, pri, val) ==
    [_parameters_ |-> Table([n \in Nodes |-> <<>>]),
     size |-> Table([n \in Nodes |-> IF n \in Leaves THEN sz[n] ELSE 0]),
     _param_slices_ |-> Table([n \in Nodes |-> <<>>]),
     _direct_parent_ |-> Table([n \in Nodes |-> None]),
     _parent_index_ |-> Table([n \in Nodes |-> NoIndex]),
     _observer_callables_ |->
          Table([n \in Nodes |-> IF n \in Containers
                                 THEN <<[p |-> HookPriority, o |-> n, c |-> changed_cb]>>
                                 ELSE <<>>]),
     constraints |-> Table([n \in Nodes |-> RealRef(n)]),
     priors |-> Table([n \in Nodes |-> RealRef(n)]),
     cstore |-> Table([n \in Nodes |-> Table([p \in Props |->
                    IF n \in Leaves /\ con[n] = p THEN 0 .. (sz[n] - 1) ELSE {}])]),
     pstore |-> Table([n \in Nodes |-> Table([p \in Props |->
                    IF n \in Leaves /\ pri[n] = p THEN 0 .. (sz[n] - 1) ELSE {}])]),
     _fixes_ |-> Table([n \in Nodes |->
                    IF n \in Leaves /\ con[n] = fixed /\ sz[n] > 0
                    THEN Mask([i \in 1 .. sz[n] |-> FIXED]) ELSE NoFixes]),
     __dict__ |-> Table([n \in Nodes |-> Table([nm \in PNames |-> None])]),
     _added_names_ |-> Table([n \in Nodes |-> {}]),
     values |-> Table([n \in Nodes |->
                    IF n \in Leaves THEN [i \in 1 .. sz[n] |-> val[n]] ELSE <<>>]),
     called |-> <<>>, warned |-> FALSE, result |-> <<>>, exc |-> None]

\* The variables hold the objects of r, no call made on them yet.
Start(r) ==
    /\ _parameters_ = r._parameters_
    /\ size = r.size
    /\ _param_slices_ = r._param_slices_
    /\ _direct_parent_ = r._direct_parent_
    /\ _parent_index_ = r._parent_index_
    /\ _observer_callables_ = r._observer_callables_
    /\ constraints = r.constraints
    /\ priors = r.priors
    /\ cstore = r.cstore
    /\ pstore = r.pstore
    /\ _fixes_ = r._fixes_
    /\ __dict__ = r.__dict__
    /\ _added_names_ = r._added_names_
    /\ values = r.values
    /\ called = <<>>
    /\ warned = FALSE
    /\ result = <<>>
    /\ last = Call("init", None, None, NoIndex)
    /\ err = None
    /\ nops = 0

\* A call ended: its effects and its outcome become the state; k calls made.
Commit(r, call, k) ==
    /\ _parameters_' = r._parameters_
    /\ size' = r.size
    /\ _param_slices_' = r._param_slices_
    /\ _direct_parent_' = r._direct_parent_
    /\ _parent_index_' = r._parent_index_
    /\ _observer_callables_' = r._observer_callables_
    /\ constraints' = r.constraints
    /\ priors' = r.priors
    /\ cstore' = r.cstore
    /\ pstore' = r.pstore
    /\ _fixes_' = r._fixes_
    /\ __dict__' = r.__dict__
    /\ _added_names_' = r._added_names_
    /\ values' = r.values
    /\ called' = r.called
    /\ warned' = r.warned
    /\ result' = r.result
    /\ last' = call
    /\ err' = r.exc
    /\ nops' = k

\* A call is explored while the bound on calls allows and the parent
\* pointers form no cycle (on a cycle the walks of the hierarchy do not end).
CanCall(bound) == nops < bound /\ Acyclic(_direct_parent_)

\* the position of param among the children of self, NoIndex for none
PositionOf(self, param) ==
    IF In(param, _parameters_[self]) THEN _parent_index_[param] ELSE NoIndex

-----------------------------------------------------------------------------
(* Specification Spec: attach and detach on two containers and two leaves *)

TreeContainers == {"M", "S"}
TreeLeaves == {"a", "b"}
TreeNodes == TreeContainers \cup TreeLeaves
TreeIndex == {NoIndex, 0}

TreeSizes == [n \in Leaves |-> IF n = "a" THEN 1 ELSE 2]
TreeVals == [n \in Leaves |-> IF n = "a" THEN 0 ELSE 1]

Init ==
    \E ca \in {None, "t1", fixed}, cb \in {None, fixed} :
        Start(New(TreeSizes,
                  [n \in Leaves |-> IF n = "a" THEN ca ELSE IF n = "b" THEN cb ELSE None],
                  [n \in Leaves |-> IF n = "b" THEN "p1" ELSE None],
                  TreeVals))

AddParameter ==
    \E self \in TreeContainers, param \in TreeNodes, index \in TreeIndex :
        /\ CanCall(MaxOps)
        /\ param # self
        /\ Commit(add_parameter(Cur, self, param, index),
                  Call("add_parameter", self, param, index), nops + 1)

RemoveParameter ==
    \E self \in TreeContainers, param \in TreeNodes :
        /\ CanCall(MaxOps)
        /\ param # self
        /\ Commit(remove_parameter(Cur, self, param),
                  Call("remove_parameter", self, param, PositionOf(self, param)), nops + 1)

Next == AddParameter \/ RemoveParameter

Spec == Init /\ [][Next]_vars

-----------------------------------------------------------------------------
(* Specification SpecObs: the observer list of one observable *)

ObsNode == "a"
ObsObservers == {"o1", "o2"}
ObsCallables == {"cb1", "cb2"}
ObsPriorities == {5, 0, -100}
ObsMins == {-50, 0}

InitObs ==
    Start(New(TreeSizes, [n \in Leaves |-> None], [n \in Leaves |-> None], TreeVals))

AddObserver ==
    \E o \in ObsObservers, c \in ObsCallables, p \in ObsPriorities :
        /\ Len(_observer_callables_[ObsNode]) < MaxObs
        /\ Commit(add_observer(Cur, ObsNode, o, c, p),
                  [Call("add_observer", ObsNode, o, NoIndex) EXCEPT !.c = c, !.priority = p],
                  nops)

RemoveObserver ==
    \E o \in ObsObservers, c \in ObsCallables \cup {None} :
        Commit(remove_observer(Cur, ObsNode, o, c),
               [Call("remove_observer", ObsNode, o, NoIndex) EXCEPT !.c = c], nops)

NotifyObservers ==
    Commit(_notify_observers(Cur, ObsNode, FALSE, 0),
           Call("_notify_observers", ObsNode, None, NoIndex), nops)

NotifyObserversAbove ==
    \E m \in ObsMins :
        Commit(_notify_observers(Cur, ObsNode, TRUE, m),
               [Call("_notify_observers", ObsNode, "min_priority", NoIndex)
                    EXCEPT !.priority = m],
               nops)

NextObs == AddObserver \/ RemoveObserver \/ NotifyObservers \/ NotifyObserversAbove

SpecObs == InitObs /\ [][NextObs]_vars

\* C6: after any sequence of add_observer and remove_observer calls,
\* _notify_observers without min_priority invokes every registered callback
\* once, and with min_priority = m exactly those of a priority above m, in
\* both cases in descending order of priority.
C6_NotificationOrder ==
    last.op = "_notify_observers" =>
        LET obs == _observer_callables_[last.self]
            due(e) == last.param # "min_priority" \/ e.p > last.priority
        IN /\ [i \in 1 .. Len(called) |->
                  [p |-> called[i].p, o |-> called[i].o, c |-> called[i].c]]
                = SelectSeq(obs, due)
           /\ \A i, j \in 1 .. Len(called) : i < j => called[i].p >= called[j].p

\* with priorities [5, 0, -100] registered, min_priority = -50 invoked two
C6_Witness ==
    /\ last.op = "_notify_observers"
    /\ last.param = "min_priority"
    /\ last.priority = -50
    /\ [i \in 1 .. Len(_observer_callables_[ObsNode]) |-> _observer_callables_[ObsNode][i].p]
         = <<5, 0, -100>>
    /\ Len(called) = 2

C17_Unsubscribe ==
    [][last'.op = "remove_observer" =>
         LET obs == _observer_callables_[last'.self]
             stays(e) == ~(e.o = last'.param /\ (last'.c = None \/ e.c = last'.c))
         IN /\ _observer_callables_'[last'.self] = SelectSeq(obs, stays)
            /\ (\A i \in 1 .. Len(obs) : stays(obs[i]))
                  => _observer_callables_'[last'.self] = obs]_vars

\* remove_observer(o, cb) has just left another callback of o and an entry
\* of another observer in the list
C17_Witness ==
    /\ last.op = "remove_observer"
    /\ last.c # None
    /\ Len(_observer_callables_[ObsNode]) = 2
    /\ \E i, j \in 1 .. 2 :
          /\ _observer_callables_[ObsNode][i].o = last.param
          /\ _observer_callables_[ObsNode][i].c # last.c
          /\ _observer_callables_[ObsNode][j].o # last.param

-----------------------------------------------------------------------------
(* Specification SpecNotify: bulk assignment on trees of three containers *)

NtfContainers == {"M", "S", "T"}
NtfNodes == NtfContainers \cup {"a"}
NtfFill == {0, 2}

\* the tree a constructor builds from the bottom: M over S over T over a
Chain(r) ==
    add_parameter(add_parameter(add_parameter(r, "T", "a", NoIndex), "S", "T", NoIndex),
                  "M", "S", NoIndex)

NtfPlain ==
    New(TreeSizes, [n \in Leaves |-> None], [n \in Leaves |-> None], TreeVals)

NtfConstrained ==
    New(TreeSizes, [n \in Leaves |-> IF n = "a" THEN "t1" ELSE None],
        [n \in Leaves |-> None], TreeVals)

InitNotify ==
    \/ Start(NtfPlain)
    \/ Start(NtfConstrained)
    \/ Start(Chain(NtfPlain))
    \/ Start(Chain(NtfConstrained))

NtfAddParameter ==
    \E self \in NtfContainers, param \in NtfNodes :
        /\ CanCall(MaxOps)
        /\ param # self
        /\ Commit(add_parameter(Cur, self, param, NoIndex),
                  Call("add_parameter", self, param, NoIndex), nops + 1)

\* the vectors handed to a root: one entry for each of the size it reports
Filled(n, x) == [i \in 1 .. size[n] |-> x]

SetParams ==
    \E root \in NtfContainers, x \in NtfFill :
        /\ CanCall(MaxOps)
        /\ _direct_parent_[root] = None
        /\ Commit(_set_params(Cur, root, Filled(root, x), TRUE),
                  Call("_set_params", root, None, NoIndex), nops + 1)

SetParamsTransformed ==
    \E root \in NtfContainers, x \in NtfFill, lenient \in BOOLEAN :
        /\ CanCall(MaxOps)
        /\ _direct_parent_[root] = None
        /\ Commit(_set_params_transformed(Cur, root, Filled(root, x), lenient),
                  Call("_set_params_transformed", root, None, NoIndex), nops + 1)

NextNotify == NtfAddParameter \/ SetParams \/ SetParamsTransformed

SpecNotify == InitNotify /\ [][NextNotify]_vars

\* the containers at and below n, by the children lists
RECURSIVE Below(_, _)
Below(ps, n) ==
    {n} \cup UNION {Below(ps, ps[n][i]) : i \in 1 .. Len(ps[n])}

\* the containers whose hook ran, in the order they ran
Hooks == LET h == SelectSeq(called, LAMBDA e : e.c = changed_cb)
         IN [i \in 1 .. Len(h) |-> h[i].o]

\* C7: one _set_params or _set_params_transformed on a root runs the
\* parameters_changed hook of every container of the tree once and of nothing
\* else, a descendant's before its ancestors', the root's last.
C7_HookOncePerAssignment ==
    (last.op \in {"_set_params", "_set_params_transformed"} /\ err = None) =>
        LET tree == Below(_parameters_, last.self) \cap Containers
        IN /\ \A c \in tree : Cardinality({i \in 1 .. Len(Hooks) : Hooks[i] = c}) = 1
           /\ \A i \in 1 .. Len(Hooks) : Hooks[i] \in tree
           /\ \A i, j \in 1 .. Len(Hooks) :
                 (Hooks[j] # Hooks[i] /\ Hooks[j] \in Below(_parameters_, Hooks[i])) => j < i
           /\ Hooks[Len(Hooks)] = last.self

\* the root of three nested containers over a leaf has been assigned
C7_Witness ==
    /\ last.op = "_set_params"
    /\ err = None
    /\ last.self = "M"
    /\ _parameters_["M"] = <<"S">>
    /\ _parameters_["S"] = <<"T">>
    /\ _parameters_["T"] = <<"a">>
    /\ values["a"] = <<2>>
    /\ Hooks = <<"T", "S", "M">>

-----------------------------------------------------------------------------
(* Specification SpecOpt: the optimizer's view of trees with fixed and     *)
(* constrained leaves                                                      *)

OptContainers == {"M", "S"}
OptLeaves == {"a", "b"}
OptEdges == {<<"M", "a">>, <<"M", "b">>, <<"M", "S">>, <<"S", "a">>, <<"S", "b">>}
OptCons == {None, "t1", fixed}
OptFill == {0, 2}
OptGradShift == {0, 1}

OptNew(ca, cb) ==
    New(TreeSizes,
        [n \in Leaves |-> IF n = "a" THEN ca ELSE IF n = "b" THEN cb ELSE None],
        [n \in Leaves |-> None], TreeVals)

\* the trees a constructor builds: M over a and b, M over a and S over b
Flat(r) == add_parameter(add_parameter(r, "M", "a", NoIndex), "M", "b", NoIndex)

Nested(r) ==
    add_parameter(add_parameter(add_parameter(r, "S", "b", NoIndex), "M", "a", NoIndex),
                  "M", "S", NoIndex)

InitOpt ==
    \E ca \in OptCons, cb \in OptCons :
        Start(Flat(OptNew(ca, cb))) \/ Start(Nested(OptNew(ca, cb)))

OptAddParameter ==
    \E e \in OptEdges :
        /\ CanCall(MaxOps)
        /\ Commit(add_parameter(Cur, e[1], e[2], NoIndex),
                  Call("add_parameter", e[1], e[2], NoIndex), nops + 1)

OptRemoveParameter ==
    \E e \in OptEdges :
        /\ CanCall(MaxOps)
        /\ Commit(remove_parameter(Cur, e[1], e[2]),
                  Call("remove_parameter", e[1], e[2], PositionOf(e[1], e[2])), nops + 1)

Fix ==
    \E n \in OptContainers \cup OptLeaves :
        /\ CanCall(MaxOps)
        /\ Commit(constrain_fixed(Cur, n), Call("constrain_fixed", n, None, NoIndex), nops + 1)

Unfix ==
    \E n \in OptContainers \cup OptLeaves :
        /\ CanCall(MaxOps)
        /\ Commit(unconstrain_fixed(Cur, n),
                  Call("unconstrain_fixed", n, None, NoIndex), nops + 1)

Constrain ==
    \E n \in OptLeaves :
        /\ CanCall(MaxOps)
        /\ Commit(constrain(Cur, n, "t1", TRUE, TRUE),
                  Call("constrain", n, "t1", NoIndex), nops + 1)

\* _set_params_transformed(_get_params_transformed()) on a root
round_trip(st, root, lenient) ==
    LET g == _get_params_transformed(st, root, lenient)
    IN IF g.exc # None THEN Raise(st, g.exc)
       ELSE _set_params_transformed(st, root, g.v, lenient)

RoundTrip ==
    \E root \in OptContainers, lenient \in BOOLEAN :
        /\ CanCall(MaxOps)
        /\ _direct_parent_[root] = None
        /\ Commit(round_trip(Cur, root, lenient),
                  Call("round_trip", root, None, NoIndex), nops + 1)

\* a free vector of the length of the one the root hands out
OptSetParamsTransformed ==
    \E root \in OptContainers, x \in OptFill, lenient \in BOOLEAN :
        LET g == _get_params_transformed(Cur, root, lenient) IN
        /\ CanCall(MaxOps)
        /\ _direct_parent_[root] = None
        /\ g.exc = None
        /\ Commit(_set_params_transformed(Cur, root, [i \in 1 .. Len(g.v) |-> x], lenient),
                  Call("_set_params_transformed", root, None, NoIndex), nops + 1)

\* a raw gradient of n entries, no two neighbours alike
Grad(n, k) == [i \in 1 .. n |-> (i + k) % NVal]

\* the results of a call that returns a vector and changes no object
Returned(r) == [Cur EXCEPT !.result = r.v, !.exc = r.exc]

TransformGradients ==
    \E root \in OptContainers, k \in OptGradShift, lenient \in BOOLEAN :
        /\ CanCall(MaxOps)
        /\ _direct_parent_[root] = None
        /\ size[root] >= 0
        /\ Commit(Returned(_transform_gradients(Cur, root, Grad(size[root], k), lenient)),
                  Call("_transform_gradients", root, None, k), nops + 1)

GetParamsTransformed ==
    \E root \in OptContainers, lenient \in BOOLEAN :
        /\ CanCall(MaxOps)
        /\ _direct_parent_[root] = None
        /\ Commit(Returned(_get_params_transformed(Cur, root, lenient)),
                  Call("_get_params_transformed", root, None, NoIndex), nops + 1)

NextOpt ==
    \/ TransformGradients
    \/ GetParamsTransformed
    \/ OptAddParameter
    \/ OptRemoveParameter
    \/ Fix
    \/ Unfix
    \/ Constrain
    \/ RoundTrip
    \/ OptSetParamsTransformed

SpecOpt == InitOpt /\ [][NextOpt]_vars

\* C3: on the root of a tree reached by attach, detach, constrain and fix,
\* _set_params_transformed(_get_params_transformed()) leaves the raw values of
\* every leaf as they were.
C3_RoundTrip ==
    [][last'.op = "round_trip" => values' = values]_vars

\* C4: in every state reached by attach, detach, fix, unfix and constrain the
\* free vector of a root has as many entries as the root's size less the
\* number of indices under the fixed sentinel.
C4_FreeVectorLength ==
    \A root \in OptContainers, lenient \in BOOLEAN :
        LET g == _get_params_transformed(Cur, root, lenient) IN
        (_direct_parent_[root] = None /\ g.exc = None)
            => Len(g.v) = _size_transformed(Cur, root)

\* C5: _set_params_transformed(v) on a root, v of the length of its free
\* vector, leaves the raw value at every index under the fixed sentinel as it
\* was before the call.
C5_FixedUnchanged ==
    [][last'.op = "_set_params_transformed" =>
         LET before == _get_params(Cur, last'.self).v
             after == _get_params([Cur EXCEPT !.values = values'], last'.self).v
         IN \A i \in items(cstore, constraints[last'.self])[fixed] :
                (i >= 0 /\ i < Len(before)) => after[i + 1] = before[i + 1]]_vars

\* The raw values of the leaves under n, depth first in the order of the
\* children lists.
RECURSIVE Flatten(_, _)
Flatten(st, n) ==
    IF n \in Leaves THEN st.values[n]
    ELSE Concat([i \in 1 .. Len(st._parameters_[n]) |-> Flatten(st, st._parameters_[n][i])])

\* The indices below len that are not under the fixed sentinel, ascending.
NonFixed(st, n, len) ==
    SelectSeq([i \in 1 .. len |-> i - 1],
              LAMBDA i : i \notin items(st.cstore, st.constraints[n])[fixed])

\* The entries of v at the indices that are not under the fixed sentinel.
FreeOf(st, n, v) ==
    LET nf == NonFixed(st, n, Len(v)) IN [k \in 1 .. Len(nf) |-> v[nf[k] + 1]]

\* The raw values of the leaves with finv at the indices under a transform.
RefTransformed(st, n) ==
    LET raw == Flatten(st, n)
        its == items(st.cstore, st.constraints[n])
    IN [k \in 1 .. Len(raw) |->
           IF (k - 1) \in its["t1"] THEN finv("t1", raw[k])
           ELSE IF (k - 1) \in its["t2"] THEN finv("t2", raw[k])
           ELSE raw[k]]

\* The raw gradient g with the factor of the transform at the indices under
\* one.
RefScaled(st, n, g) ==
    LET raw == Flatten(st, n)
        its == items(st.cstore, st.constraints[n])
    IN [k \in 1 .. Len(g) |->
           IF k > Len(raw) THEN g[k]
           ELSE IF (k - 1) \in its["t1"] THEN (g[k] * gradfactor("t1", raw[k])) % NVal
           ELSE IF (k - 1) \in its["t2"] THEN (g[k] * gradfactor("t2", raw[k])) % NVal
           ELSE g[k]]

\* C14: for a root and a raw gradient g of the root's size,
\* _transform_gradients(g) has the length of _get_params_transformed(), and
\* entry k of either is the entry at the k-th index that is not under the
\* fixed sentinel; the fixed indices are in neither.
C14_GradientAlignment ==
    [][last'.op = "_transform_gradients" =>
         \A lenient \in BOOLEAN :
            LET p == _get_params_transformed(Cur, last'.self, lenient)
                g == Grad(size[last'.self], last'.index)
            IN /\ err' = None
               /\ p.exc = None
               /\ Len(result') = Len(p.v)
               /\ result' = FreeOf(Cur, last'.self, RefScaled(Cur, last'.self, g))
               /\ p.v = FreeOf(Cur, last'.self, RefTransformed(Cur, last'.self))]_vars

\* C15: _get_params_transformed() on a root is the raw values of the leaves,
\* depth first in the order of the children, with finv at every index under
\* a transform and without the entries at the indices under the fixed
\* sentinel.
C15_FreeVectorContent ==
    [][last'.op = "_get_params_transformed" =>
         /\ err' = None
         /\ result' = FreeOf(Cur, last'.self, RefTransformed(Cur, last'.self))]_vars

\* C23: in every state reached by attach, detach, fix and unfix, a node with
\* a parent has no fix mask, and the mask of a node without a parent marks as
\* fixed the indices its constraints hold under the fixed sentinel and no
\* other, no mask standing for nothing fixed.
C23_RootOwnsMask ==
    \A n \in Nodes :
        LET fx == items(cstore, constraints[n])[fixed] IN
        IF _direct_parent_[n] # None THEN _fixes_[n] = NoFixes
        ELSE IF _has_fixes(Cur, n)
        THEN /\ Len(_fixes_[n].mask) = size[n]
             /\ \A i \in 1 .. size[n] : (_fixes_[n].mask[i] = FIXED) <=> ((i - 1) \in fx)
             /\ \A i \in fx : i >= 0 /\ i < size[n]
        ELSE fx = {}

\* C24: in a tree with nothing under the fixed sentinel and no fix mask,
\* constrain_fixed on a node, at whatever offset of the tree, makes the mask
\* of the root mark the indices of the node in the root and no other, and
\* unconstrain_fixed on the node then leaves the root without a mask and with
\* nothing under the fixed sentinel.
C24_FixUnfixRoundTrip ==
    \A n \in OptContainers \cup OptLeaves :
        LET root == _highest_parent_(Cur, n)
            ind == _raveled_index_for(Cur, root, n)
            s1 == constrain_fixed(Cur, n)
            s2 == unconstrain_fixed(s1, n)
        IN (/\ Acyclic(_direct_parent_)
            /\ size[n] > 0
            /\ \A m \in Nodes : _fixes_[m] = NoFixes /\ cstore[m][fixed] = {})
           => (/\ s1.exc = None
               /\ s1._fixes_[root] = Mask([i \in 1 .. size[root] |->
                                             IF (i - 1) \in ind THEN FIXED ELSE UNFIXED])
               /\ s2.exc = None
               /\ s2._fixes_[root] = NoFixes
               /\ items(s2.cstore, s2.constraints[root])[fixed] = {})

\* C32: constrain_fixed on a node with indices under a transform takes the
\* transform off them, the indices of the node being under the fixed
\* sentinel only; unconstrain_fixed after it leaves them under no property;
\* and constrain(t) on a fixed node takes the fixed sentinel off its indices
\* and marks them free in the fix mask of the root.
C32_FixDiscardsTransform ==
    [][LET n == last'.self
           ri == _raveled_index(Cur, n)
           its == items(cstore, constraints[n])
           after == items(cstore', constraints'[n])
           root == _highest_parent_(Cur, n)
           gi == _raveled_index_for(Cur, root, n)
       IN /\ (/\ last'.op = "constrain_fixed"
               /\ \E t \in Transforms : its[t] \cap ri # {})
              => (/\ \A t \in Transforms : after[t] \cap ri = {}
                  /\ ri \subseteq after[fixed])
          /\ (/\ last'.op = "unconstrain_fixed"
               /\ last.op = "constrain_fixed" /\ last.self = n /\ err = None)
              => \A p \in Props : after[p] \cap ri = {}
          /\ (/\ last'.op = "constrain"
               /\ ri # {} /\ ri \subseteq its[fixed])
              => (/\ after[fixed] \cap ri = {}
                  /\ _fixes_'[root].has =>
                        \A i \in gi : i + 1 <= Len(_fixes_'[root].mask)
                                          => _fixes_'[root].mask[i + 1] = UNFIXED)]_vars

-----------------------------------------------------------------------------
(* Specification SpecShift: one container over leaves of sizes 2, 3, 4, 5 *)

ShiftLeaves == {"a", "b", "c", "d"}
ShiftIndex == {NoIndex, 1}

ShiftSizes == [n \in Leaves |-> IF n = "a" THEN 2 ELSE IF n = "b" THEN 3
                                ELSE IF n = "c" THEN 4 ELSE 5]

\* a under t1 with a prior, b fixed, c under t2 with a prior, d free
ShiftNew ==
    New(ShiftSizes,
        [n \in Leaves |-> IF n = "a" THEN "t1" ELSE IF n = "b" THEN fixed
                          ELSE IF n = "c" THEN "t2" ELSE None],
        [n \in Leaves |-> IF n \in {"a", "c"} THEN "p1" ELSE None],
        [n \in Leaves |-> 0])

\* the container a constructor builds by attaching x, y and z in order
Built(x, y, z) ==
    add_parameter(add_parameter(add_parameter(ShiftNew, "M", x, NoIndex), "M", y, NoIndex),
                  "M", z, NoIndex)

InitShift == Start(ShiftNew) \/ Start(Built("a", "b", "c"))

ShiftAddParameter ==
    \E param \in ShiftLeaves, index \in ShiftIndex :
        /\ CanCall(MaxOps)
        /\ Commit(add_parameter(Cur, "M", param, index),
                  Call("add_parameter", "M", param, index), nops + 1)

ShiftRemoveParameter ==
    \E param \in ShiftLeaves :
        /\ CanCall(MaxOps)
        /\ Commit(remove_parameter(Cur, "M", param),
                  Call("remove_parameter", "M", param, PositionOf("M", param)), nops + 1)

NextShift == ShiftAddParameter \/ ShiftRemoveParameter

SpecShift == InitShift /\ [][NextShift]_vars

\* what M records for its child x: the slice of x and, per property, the
\* constraint and the prior indices of M inside that slice
Recorded(st, x) ==
    LET sl == st._param_slices_["M"][st._parent_index_[x] + 1]
        inside(its) == [p \in Props |-> {i \in its[p] : i >= sl[1] /\ i < sl[2]}]
    IN [slice |-> sl,
        constraints |-> inside(items(st.cstore, st.constraints["M"])),
        priors |-> inside(items(st.pstore, st.priors["M"]))]

Layout(st) ==
    [size |-> st.size["M"], a |-> Recorded(st, "a"), c |-> Recorded(st, "c")]

\* C8: on a container with children [a, b, c] of sizes 2, 3, 4,
\* remove_parameter(b) then add_parameter(d, index=1), d of size 5, gives the
\* size, the slices of a and c and the constraint and prior indices of a and c
\* of a container built by attaching [a, d, c] in order.
C8_ShiftCorrectness ==
    [][(/\ last = Call("remove_parameter", "M", "b", 1)
        /\ err = None
        /\ _parameters_["M"] = <<"a", "c">>
        /\ last' = Call("add_parameter", "M", "d", 1))
       => Layout(Cur)' = Layout(Built("a", "d", "c"))]_vars

\* C18: after remove_parameter(c) on a container, c of size k at the offsets
\* start .. start+k-1, the constraints store and the priors store of the
\* container hold no index that was one of c, every index that was at or
\* past start+k is recorded k lower, and every index below start is as it
\* was.
C18_DetachShiftsBoth ==
    [][(last'.op = "remove_parameter" /\ err' = None) =>
         LET self == last'.self
             start == Sum(Sizes(Cur, Prefix(_parameters_[self], _parent_index_[last'.param])))
             k == size[last'.param]
             moved(ind) == {IF j >= start + k THEN j - k ELSE j :
                               j \in {i \in ind : i < start \/ i >= start + k}}
         IN \A p \in Props :
               /\ items(cstore', constraints'[self])[p]
                     = moved(items(cstore, constraints[self])[p])
               /\ items(pstore', priors'[self])[p]
                     = moved(items(pstore, priors[self])[p])]_vars

\* C19: after a remove_parameter(c) that succeeded the name lookup of the
\* container has no entry from the name of c to c (with another child of
\* that name left, the entry is that child), and every added name is the
\* name of a child the container has.
C19_DetachRemovesName ==
    [][(last'.op = "remove_parameter" /\ err' = None) =>
         LET self == last'.self
             pname == adjust_name_for_printing(name(last'.param))
             kids == {_parameters_'[self][i] : i \in 1 .. Len(_parameters_'[self])}
             same == {x \in kids : adjust_name_for_printing(name(x)) = pname}
         IN /\ __dict__'[self][pname] # last'.param
            /\ same # {} => __dict__'[self][pname] \in same
            /\ _added_names_'[self] \subseteq {adjust_name_for_printing(name(x)) : x \in kids}]_vars

-----------------------------------------------------------------------------
(* Specification SpecUp: a node of a tree notifies its observers *)

UpPriorities == {0, -200, NegInf}

InitUp == Start(NtfPlain) \/ Start(Chain(NtfPlain))

UpAddParameter ==
    \E self \in NtfContainers, param \in NtfNodes :
        /\ CanCall(MaxOps)
        /\ param # self
        /\ Commit(add_parameter(Cur, self, param, NoIndex),
                  Call("add_parameter", self, param, NoIndex), nops + 1)

UpAddObserver ==
    \E n \in NtfNodes, p \in UpPriorities :
        /\ CanCall(MaxOps)
        /\ Commit(add_observer(Cur, n, "o1", "cb1", p),
                  [Call("add_observer", n, "o1", NoIndex)
                       EXCEPT !.c = "cb1", !.priority = p],
                  nops + 1)

\* a value change made on n: n._notify_observers()
UpNotify ==
    \E n \in NtfNodes :
        /\ CanCall(MaxOps)
        /\ Commit(_notify_observers(Cur, n, FALSE, 0),
                  Call("_notify_observers", n, None, NoIndex), nops + 1)

NextUp == UpAddParameter \/ UpAddObserver \/ UpNotify

SpecUp == InitUp /\ [][NextUp]_vars

\* the containers above n, from its parent to the root
RECURSIVE Ancestors(_, _)
Ancestors(dp, n) ==
    IF dp[n] = None THEN <<>> ELSE <<dp[n]>> \o Ancestors(dp, dp[n])

\* how many entries of s are e
Count(s, e) == Cardinality({j \in 1 .. Len(s) : s[j] = e})

\* the callbacks invoked, without the origin they were handed
Invoked == [j \in 1 .. Len(called) |->
               [p |-> called[j].p, o |-> called[j].o, c |-> called[j].c]]

\* the observers of n that are not the pass-through of its parent
OtherObservers(n) ==
    SelectSeq(_observer_callables_[n],
              LAMBDA e : ~(e.o = _direct_parent_[n] /\ e.c = pass_cb))

\* the position in called of the first hook of a container other than n
FirstHookAbove(n) ==
    CHOOSE j \in 1 .. Len(called) :
        /\ called[j].c = changed_cb /\ called[j].o # n
        /\ \A i \in 1 .. (j - 1) : ~(called[i].c = changed_cb /\ called[i].o # n)

\* C26: when a node N with a parent notifies its observers, no min_priority
\* given, the parameters_changed hook of every container above N runs once,
\* the parent's first and the root's last, after every other observer of N
\* has been invoked, and every callback is handed N as the origin.
C26_UpwardPropagation ==
    (/\ last.op = "_notify_observers"
     /\ _direct_parent_[last.self] # None
     /\ Acyclic(_direct_parent_))
    => LET N == last.self
           above == SelectSeq(called, LAMBDA e : e.c = changed_cb /\ e.o # N)
           others == OtherObservers(N)
       IN /\ [i \in 1 .. Len(above) |-> above[i].o] = Ancestors(_direct_parent_, N)
          /\ \A i \in 1 .. Len(others) :
                Count(SubSeq(Invoked, 1, FirstHookAbove(N) - 1), others[i])
                    >= Count(others, others[i])
          /\ \A j \in 1 .. Len(called) : called[j].which = N

-----------------------------------------------------------------------------
(* Specification SpecCon: constrain and unconstrain on the nodes of a tree *)

ConConstrain ==
    \E n \in OptContainers \cup OptLeaves, t \in Transforms :
        /\ CanCall(MaxOps)
        /\ Commit(constrain(Cur, n, t, TRUE, TRUE), Call("constrain", n, t, NoIndex), nops + 1)

ConUnconstrain ==
    \E n \in OptContainers \cup OptLeaves :
        /\ CanCall(MaxOps)
        /\ Commit(unconstrain(Cur, n, {}).st, Call("unconstrain", n, None, NoIndex), nops + 1)

NextCon == ConConstrain \/ ConUnconstrain

SpecCon == InitOpt /\ [][NextCon]_vars

\* C27: in every state reached by constrain calls with any transforms on
\* any nodes of a tree, overlapping or not, no index of a constraints store
\* is under two transforms, and after constrain(t) on a node every index of
\* the node, in the coordinates of the root, is under t.
C27_ReplaceNeverStack ==
    /\ \A m \in Nodes : \A t, u \in Transforms :
           t # u => cstore[m][t] \cap cstore[m][u] = {}
    /\ last.op = "constrain" =>
           LET root == _highest_parent_(Cur, last.self)
           IN _raveled_index_for(Cur, root, last.self)
                  \subseteq items(cstore, constraints[root])[last.param]

\* a container over a leaf under t1 has just been constrained to t2
C27_Witness ==
    /\ last.op = "constrain"
    /\ last.self = "M"
    /\ last.param = "t2"
    /\ err = None
    /\ warned
    /\ size["M"] = 3
    /\ cstore["M"]["t2"] = {0, 1, 2}

\* C28: constrain(t) on a node that has an index under a constraint ends
\* without an error and prints the re-constraining warning; on a node that
\* has no index under a constraint it prints no warning.
C28_OverrideWarns ==
    [][last'.op = "constrain" =>
         LET its == items(cstore, constraints[last'.self])
             had == \E p \in Transforms \cup {fixed} :
                        its[p] \cap _raveled_index(Cur, last'.self) # {}
         IN /\ had => err' = None
            /\ warned' <=> had]_vars

\* a leaf under t1 has just been constrained to t2, with the warning
C28_Witness ==
    /\ last.op = "constrain"
    /\ last.self = "b"
    /\ last.param = "t2"
    /\ err = None
    /\ warned
    /\ items(cstore, constraints["b"])["t2"] = {0, 1}
    /\ items(cstore, constraints["b"])["t1"] = {}

-----------------------------------------------------------------------------
(* Specification SpecRand: randomize on trees with fixed, constrained and  *)
(* priored leaves                                                          *)

\* Constrainable.set_prior
set_prior(st, self, prior, warning) ==
    LET u == _remove_from_index_operations(st, self, "priors", {})
    IN IF u.st.exc # None THEN u.st
       ELSE _add_to_index_operations(u.st, self, "priors", u.removed, prior, warning)

\* OptimizationHandlable.randomize: the draw from N(0,1) is the vector
\* Grad(k, x) for some x, every sample of a prior is r for some r; randn of a
\* negative length raises ValueError, np.put of an index outside the vector
\* IndexError.
randomize(st, n, x, r, lenient) ==
    LET k == _size_transformed(st, n)
        ind == items(st.pstore, st.priors[n])
        put(u) ==
            IF u.exc # None THEN Raise(st, u.exc)
            ELSE IF \E p \in PriorProps : ~InRange(ind[p], Len(u.v))
            THEN Raise(st, "IndexError")
            ELSE _set_params(st, n,
                             [j \in 1 .. Len(u.v) |->
                                 IF \E p \in PriorProps : Hits(ind[p], Len(u.v), j)
                                 THEN r ELSE u.v[j]],
                             TRUE)
    IN IF k < 0 THEN Raise(st, "ValueError")
       ELSE put(_untransform_params(st, n, Grad(k, x), lenient))

InitRand ==
    \E ca \in OptCons, cb \in OptCons, pa \in {None, "p1"}, pb \in {None, "p1"} :
        LET r == New(TreeSizes,
                     [n \in Leaves |-> IF n = "a" THEN ca ELSE IF n = "b" THEN cb ELSE None],
                     [n \in Leaves |-> IF n = "a" THEN pa ELSE IF n = "b" THEN pb ELSE None],
                     TreeVals)
        IN Start(Flat(r)) \/ Start(Nested(r))

RandSetPrior ==
    \E n \in OptContainers \cup OptLeaves :
        /\ CanCall(MaxOps)
        /\ Commit(set_prior(Cur, n, "p1", TRUE), Call("set_prior", n, "p1", NoIndex), nops + 1)

Randomize ==
    \E root \in OptContainers, x \in Val, r \in Val, lenient \in BOOLEAN :
        /\ CanCall(MaxOps)
        /\ _direct_parent_[root] = None
        /\ Commit(randomize(Cur, root, x, r, lenient),
                  Call("randomize", root, None, NoIndex), nops + 1)

NextRand == RandSetPrior \/ Randomize

SpecRand == InitRand /\ [][NextRand]_vars

\* C31: on a tree with any mix of fixed indices, transforms and priors, an
\* index under the fixed sentinel and under a prior included, randomize()
\* leaves the raw value at every index under the fixed sentinel as it was.
C31_RandomizeKeepsFixed ==
    [][last'.op = "randomize" =>
         LET before == _get_params(Cur, last'.self).v
             after == _get_params([Cur EXCEPT !.values = values'], last'.self).v
         IN \A i \in items(cstore, constraints[last'.self])[fixed] :
                (i >= 0 /\ i < Len(before)) => after[i + 1] = before[i + 1]]_vars

-----------------------------------------------------------------------------
(* Claims checked under Spec *)

\* C1: after any sequence of add_parameter and remove_parameter calls, on
\* any container of the tree, the size of every container is the sum of the
\* sizes of its current children.
C1_SizeInvariant ==
    \A c \in Containers : size[c] = Sum(Sizes(Cur, _parameters_[c]))

\* C2: D.add_parameter(P) with D a descendant of P raises HierarchyError and
\* leaves the children lists, the parent pointers, the sizes and the observer
\* registrations as they were.
C2_CycleRejected ==
    [][(/\ last'.op = "add_parameter"
        /\ InAncestors(Cur, last'.param, _direct_parent_[last'.self]))
       => (/\ err' = "HierarchyError"
           /\ UNCHANGED <<_parameters_, _direct_parent_, size, _observer_callables_>>)]_vars

\* C9: remove_parameter(c) then add_parameter(c, index=i), for the child c at
\* position i of a root container M (the two calls add_parameter makes for a
\* child given with an index), restores the size of M, the order of its
\* children, their slices, its fix mask and its constraint index sets.
C9_DetachReattach ==
    [][(/\ last'.op = "add_parameter"
        /\ _direct_parent_[last'.self] = None
        /\ In(last'.param, _parameters_[last'.self])
        /\ last'.index = _parent_index_[last'.param])
       => (/\ size'[last'.self] = size[last'.self]
           /\ _parameters_'[last'.self] = _parameters_[last'.self]
           /\ _param_slices_'[last'.self] = _param_slices_[last'.self]
           /\ _fixes_'[last'.self] = _fixes_[last'.self]
           /\ items(cstore', constraints'[last'.self])
                = items(cstore, constraints[last'.self]))]_vars

\* C10: remove_parameter(x) on a container whose children do not include x
\* raises an error and changes nothing of any object.
C10_DetachNonChild ==
    [][(/\ last'.op = "remove_parameter"
        /\ ~In(last'.param, _parameters_[last'.self]))
       => (err' = "RuntimeError" /\ UNCHANGED objvars)]_vars

\* C11: add_parameter(c) with no index on a container that has c as a direct
\* child raises an error and changes nothing: c is in the children list
\* exactly once, the size of the container is as it was, and the observer
\* list of c is as it was.
C11_DuplicateAttach ==
    [][(/\ last'.op = "add_parameter"
        /\ last'.index = NoIndex
        /\ In(last'.param, _parameters_[last'.self]))
       => (/\ err' # None
           /\ Cardinality({i \in 1 .. Len(_parameters_'[last'.self]) :
                              _parameters_'[last'.self][i] = last'.param}) = 1
           /\ size'[last'.self] = size[last'.self]
           /\ _observer_callables_'[last'.param] = _observer_callables_[last'.param]
           /\ UNCHANGED objvars)]_vars

\* a second add_parameter of a child of a container with two children has
\* just failed
C11_Witness ==
    /\ last.op = "add_parameter"
    /\ last.index = NoIndex
    /\ err = "RuntimeError"
    /\ In(last.param, _parameters_[last.self])
    /\ Len(_parameters_[last.self]) = 2

\* C12: S.add_parameter(c), with c not a direct child of S and S among the
\* ancestors of the parent of c, raises HierarchyError and changes nothing of
\* any object.
C12_AttachDescendant ==
    [][(/\ last'.op = "add_parameter"
        /\ ~In(last'.param, _parameters_[last'.self])
        /\ _direct_parent_[last'.param] # None
        /\ _direct_parent_[last'.param] # last'.self
        /\ \/ _direct_parent_[_direct_parent_[last'.param]] = last'.self
           \/ /\ _direct_parent_[_direct_parent_[last'.param]] # None
              /\ _direct_parent_[_direct_parent_[_direct_parent_[last'.param]]] = last'.self)
       => (err' = "HierarchyError" /\ UNCHANGED objvars)]_vars

\* the attach of a grandchild to its grandparent has just been refused
C12_Witness ==
    /\ last.op = "add_parameter"
    /\ err = "HierarchyError"
    /\ _direct_parent_[last.param] # None
    /\ _direct_parent_[last.param] # last.self
    /\ _direct_parent_[_direct_parent_[last.param]] = last.self
    /\ ~In(last.param, _parameters_[last.self])

\* C13: after a remove_parameter(c) that succeeded, c has no parent and no
\* parent index, the observer list of c holds no entry of the former
\* container, and the constraints and the priors of c are stores c owns, not
\* views of another node's stores.
C13_DetachDisconnects ==
    [][(last'.op = "remove_parameter" /\ err' = None)
       => (/\ _direct_parent_'[last'.param] = None
           /\ _parent_index_'[last'.param] = NoIndex
           /\ \A i \in 1 .. Len(_observer_callables_'[last'.param]) :
                  _observer_callables_'[last'.param][i].o # last'.self
           /\ constraints'[last'.param] = RealRef(last'.param)
           /\ priors'[last'.param] = RealRef(last'.param))]_vars

C21_SliceContiguity ==
    \A c \in Containers :
        LET ps == _parameters_[c]
            sl == _param_slices_[c]
        IN /\ Len(sl) = Len(ps)
           /\ \A i \in 1 .. Len(ps) :
                 /\ sl[i][1] = Sum(Sizes(Cur, SubSeq(ps, 1, i - 1)))
                 /\ sl[i][2] = sl[i][1] + size[ps[i]]
           /\ IF ps = <<>> THEN size[c] = 0 ELSE sl[Len(ps)][2] = size[c]

\* C22: in every state reached by add_parameter and remove_parameter calls
\* anywhere in the tree, the constraints and the priors of a node in the
\* children list of a container are the views of the container's constraints
\* and priors at the container's _offset_for the node, of the node's size.
C22_ViewsTrackTree ==
    \A p \in Containers : \A i \in 1 .. Len(_parameters_[p]) :
        LET n == _parameters_[p][i] IN
        (_direct_parent_[n] = p /\ _parent_index_[n] = i - 1) =>
            /\ constraints[n] = View(constraints[p], _offset_for(Cur, p, n), size[n])
            /\ priors[n] = View(priors[p], _offset_for(Cur, p, n), size[n])

\* C25: an add_parameter and a remove_parameter that succeeded on a container
\* have invoked every callback registered in the observer list of that
\* container before they returned.
C25_StructuralChangeAnnounced ==
    [][(last'.op \in {"add_parameter", "remove_parameter"} /\ err' = None)
       => \A i \in 1 .. Len(_observer_callables_[last'.self]) :
             \E j \in 1 .. Len(called') :
                /\ called'[j].o = _observer_callables_[last'.self][i].o
                /\ called'[j].c = _observer_callables_[last'.self][i].c]_vars

\* C29: in every state reached by attach, detach, reposition and move, the
\* node at position i of the children of a container has that container as
\* its parent and i as its parent index, a node is in the children list of at
\* most one container and at most once in it, and a node in no children list
\* has neither a parent nor a parent index.
C29_ParentLinks ==
    /\ \A c \in Containers : \A i \in 1 .. Len(_parameters_[c]) :
          /\ _direct_parent_[_parameters_[c][i]] = c
          /\ _parent_index_[_parameters_[c][i]] = i - 1
          /\ \A j \in 1 .. Len(_parameters_[c]) :
                _parameters_[c][j] = _parameters_[c][i] => j = i
          /\ \A d \in Containers \ {c} : ~In(_parameters_[c][i], _parameters_[d])
    /\ \A n \in Nodes :
          (\A c \in Containers : ~In(n, _parameters_[c]))
              => (_direct_parent_[n] = None /\ _parent_index_[n] = NoIndex)

\* C30: in every state reached by add_parameter and remove_parameter calls
\* that returned, with an error or without, following the parent pointers
\* from any node comes to a node without a parent: _highest_parent_ and the
\* loops over the ancestors in add_parameter and remove_parameter end.
C30_WalksTerminate ==
    \A n \in Nodes : EndsWithin(_direct_parent_, n, Cardinality(Nodes))

\* a remove_parameter of a deeper descendant has just failed
C10_Witness ==
    /\ last.op = "remove_parameter"
    /\ err = "RuntimeError"
    /\ has_parent(Cur, last.param)
    /\ _direct_parent_[last.param] # last.self
    /\ InAncestors(Cur, last.self, _direct_parent_[last.param])

====
